---- MODULE Spec2Model ----
(***************************************************************************)
(* slugify-c: strict UTF-8 validation, table-driven transliteration and    *)
(* the bounded slug builder of src/slugify.c.                              *)
(*                                                                         *)
(* Strings are sequences of bytes (0..255).  A C string s of length n is   *)
(* the sequence of its n bytes; the byte at C offset k is s[k+1], the byte *)
(* at offset n is the NUL terminator, and bytes past the terminator are    *)
(* whatever the memory after the string holds (variable tail).             *)
(***************************************************************************)
EXTENDS Integers, Sequences, FiniteSets

\* ------------------------------------------------------------------------
\* Error codes (slugify.h)
\* ------------------------------------------------------------------------
SLUGIFY_SUCCESS == 0

SLUGIFY_ERROR_BUFFER == 1

SLUGIFY_ERROR_INVALID == 2

SLUGIFY_ERROR_EMPTY == 3

SLUGIFY_ERROR_MEMORY == 4

\* rc before slugify_ex has returned: a value it never returns
RC_NONE == SLUGIFY_ERROR_MEMORY + 1

\* The NULL pointer, as a value no byte string equals.
NULL == <<-1>>

\* ------------------------------------------------------------------------
\* <ctype.h> in the "C" locale
\* ------------------------------------------------------------------------
isdigit(c) == c >= 48 /\ c <= 57

isupper(c) == c >= 65 /\ c <= 90

islower(c) == c >= 97 /\ c <= 122

isalnum(c) == isdigit(c) \/ isupper(c) \/ islower(c)

isspace(c) == (c >= 9 /\ c <= 13) \/ c = 32

ispunct(c) == (c >= 33 /\ c <= 47) \/ (c >= 58 /\ c <= 64)
              \/ (c >= 91 /\ c <= 96) \/ (c >= 123 /\ c <= 126)

tolower(c) == IF isupper(c) THEN c + 32 ELSE c

\* ------------------------------------------------------------------------
\* Bit operations on bytes, written arithmetically
\* ------------------------------------------------------------------------
\* (b & 0xC0) == 0x80
IsCont(b) == b \div 64 = 2

\* (c & 0xE0) == 0xC0
IsLead2(c) == c \div 32 = 6

\* (c & 0xF0) == 0xE0
IsLead3(c) == c \div 16 = 14

\* (c & 0xF8) == 0xF0
IsLead4(c) == c \div 8 = 30

\* b & 0x3F
Low6(b) == b % 64

\* ------------------------------------------------------------------------
\* Memory holding the input string
\* ------------------------------------------------------------------------
\* The byte at C offset k of the string s whose memory continues with t
\* after the NUL terminator; memory beyond the modelled tail reads as 0.
ByteAt(s, t, k) ==
  IF k < Len(s) THEN s[k + 1]
  ELSE IF k = Len(s) THEN 0
  ELSE IF k - Len(s) <= Len(t) THEN t[k - Len(s)]
  ELSE 0

\* strlen(s) for a string held as the sequence of its bytes
strlen(s) == Len(s)

\* ------------------------------------------------------------------------
\* UTF-8 utility functions
\* ------------------------------------------------------------------------
utf8_char_length(c) ==
  IF c < \H80 THEN 1
  ELSE IF IsLead2(c) THEN 2
  ELSE IF IsLead3(c) THEN 3
  ELSE IF IsLead4(c) THEN 4
  ELSE 1

\* is_overlong_encoding without its 4-byte case
is_overlong_encoding_no4(char_len, codepoint) ==
  CASE char_len = 2 -> codepoint < \H80
    [] char_len = 3 -> codepoint < \H800
    [] OTHER -> FALSE

is_overlong_encoding(char_len, codepoint) ==
  CASE char_len = 2 -> codepoint < \H80
    [] char_len = 3 -> codepoint < \H800
    [] char_len = 4 -> codepoint < \H10000
    [] OTHER -> FALSE

\* ContinuationsOk testing the first continuation byte only
ContinuationsOk_first(str, i, char_len) ==
  \A k \in 1..(IF char_len > 1 THEN 1 ELSE 0) : IsCont(ByteAt(str, <<>>, i + k))

\* continuation-byte checks of is_utf8_valid for the char_len bytes at i
ContinuationsOk(str, i, char_len) ==
  \A k \in 1..(char_len - 1) : IsCont(ByteAt(str, <<>>, i + k))

\* the code point is_utf8_valid decodes from the char_len bytes at i
DecodeAt(str, i, char_len) ==
  LET c  == ByteAt(str, <<>>, i)
      b1 == ByteAt(str, <<>>, i + 1)
      b2 == ByteAt(str, <<>>, i + 2)
      b3 == ByteAt(str, <<>>, i + 3)
  IN CASE char_len = 1 -> c
       [] char_len = 2 -> (c % 32) * 64 + Low6(b1)
       [] char_len = 3 -> (c % 16) * 4096 + Low6(b1) * 64 + Low6(b2)
       [] char_len = 4 -> (c % 8) * 262144 + Low6(b1) * 4096 + Low6(b2) * 64 + Low6(b3)

\* InvalidRange comparing the low 16 bits with 0xFFFE exactly
InvalidRange_exact(codepoint) ==
  \/ codepoint > \H10FFFF
  \/ (codepoint >= \HD800 /\ codepoint <= \HDFFF)
  \/ (codepoint >= \HFDD0 /\ codepoint <= \HFDEF)
  \/ codepoint % 65536 = 65534

\* range checks of is_utf8_valid: beyond Unicode, surrogates, non-characters
InvalidRange(codepoint) ==
  \/ codepoint > \H10FFFF
  \/ (codepoint >= \HD800 /\ codepoint <= \HDFFF)
  \/ (codepoint >= \HFDD0 /\ codepoint <= \HFDEF)
  \/ (codepoint % 65536) \div 2 = 32767

RECURSIVE ValidFrom(_, _, _)
ValidFrom(str, len, i) ==
  IF i >= len THEN TRUE
  ELSE
    LET c        == ByteAt(str, <<>>, i)
        char_len == utf8_char_length(c)
    IN IF i + char_len > len THEN FALSE
       ELSE IF ~ContinuationsOk(str, i, char_len) THEN FALSE
       ELSE IF is_overlong_encoding(char_len, DecodeAt(str, i, char_len)) THEN FALSE
       ELSE IF InvalidRange(DecodeAt(str, i, char_len)) THEN FALSE
       ELSE ValidFrom(str, len, i + char_len)

is_utf8_valid(str, len) == ValidFrom(str, len, 0)

\* ------------------------------------------------------------------------
\* Transliteration table: <<code point, replacement>>, as in the source
\* ------------------------------------------------------------------------
transliteration_table ==
  <<
  <<\H24, <<100, 111, 108, 108, 97, 114>>>>, \* "dollar"
  <<\H25, <<112, 101, 114, 99, 101, 110, 116>>>>, \* "percent"
  <<\H26, <<97, 110, 100>>>>, \* "and"
  <<\H3C, <<108, 101, 115, 115>>>>, \* "less"
  <<\H3E, <<103, 114, 101, 97, 116, 101, 114>>>>, \* "greater"
  <<\H7C, <<111, 114>>>>, \* "or"
  <<\HA2, <<99, 101, 110, 116>>>>, \* "cent"
  <<\HA3, <<112, 111, 117, 110, 100>>>>, \* "pound"
  <<\HA4, <<99, 117, 114, 114, 101, 110, 99, 121>>>>, \* "currency"
  <<\HA5, <<121, 101, 110>>>>, \* "yen"
  <<\HA9, <<40, 99, 41>>>>, \* "(c)"
  <<\HAA, <<97>>>>, \* "a"
  <<\HAE, <<40, 114, 41>>>>, \* "(r)"
  <<\HBA, <<111>>>>, \* "o"
  <<\HC0, <<65>>>>, \* "A"
  <<\HC1, <<65>>>>, \* "A"
  <<\HC2, <<65>>>>, \* "A"
  <<\HC3, <<65>>>>, \* "A"
  <<\HC4, <<65>>>>, \* "A"
  <<\HC5, <<65>>>>, \* "A"
  <<\HC6, <<65, 69>>>>, \* "AE"
  <<\HC7, <<67>>>>, \* "C"
  <<\HC8, <<69>>>>, \* "E"
  <<\HC9, <<69>>>>, \* "E"
  <<\HCA, <<69>>>>, \* "E"
  <<\HCB, <<69>>>>, \* "E"
  <<\HCC, <<73>>>>, \* "I"
  <<\HCD, <<73>>>>, \* "I"
  <<\HCE, <<73>>>>, \* "I"
  <<\HCF, <<73>>>>, \* "I"
  <<\HD0, <<68>>>>, \* "D"
  <<\HD1, <<78>>>>, \* "N"
  <<\HD2, <<79>>>>, \* "O"
  <<\HD3, <<79>>>>, \* "O"
  <<\HD4, <<79>>>>, \* "O"
  <<\HD5, <<79>>>>, \* "O"
  <<\HD6, <<79>>>>, \* "O"
  <<\HD8, <<79>>>>, \* "O"
  <<\HD9, <<85>>>>, \* "U"
  <<\HDA, <<85>>>>, \* "U"
  <<\HDB, <<85>>>>, \* "U"
  <<\HDC, <<85>>>>, \* "U"
  <<\HDD, <<89>>>>, \* "Y"
  <<\HDE, <<84, 72>>>>, \* "TH"
  <<\HDF, <<115, 115>>>>, \* "ss"
  <<\HE0, <<97>>>>, \* "a"
  <<\HE1, <<97>>>>, \* "a"
  <<\HE2, <<97>>>>, \* "a"
  <<\HE3, <<97>>>>, \* "a"
  <<\HE4, <<97>>>>, \* "a"
  <<\HE5, <<97>>>>, \* "a"
  <<\HE6, <<97, 101>>>>, \* "ae"
  <<\HE7, <<99>>>>, \* "c"
  <<\HE8, <<101>>>>, \* "e"
  <<\HE9, <<101>>>>, \* "e"
  <<\HEA, <<101>>>>, \* "e"
  <<\HEB, <<101>>>>, \* "e"
  <<\HEC, <<105>>>>, \* "i"
  <<\HED, <<105>>>>, \* "i"
  <<\HEE, <<105>>>>, \* "i"
  <<\HEF, <<105>>>>, \* "i"
  <<\HF0, <<100>>>>, \* "d"
  <<\HF1, <<110>>>>, \* "n"
  <<\HF2, <<111>>>>, \* "o"
  <<\HF3, <<111>>>>, \* "o"
  <<\HF4, <<111>>>>, \* "o"
  <<\HF5, <<111>>>>, \* "o"
  <<\HF6, <<111>>>>, \* "o"
  <<\HF8, <<111>>>>, \* "o"
  <<\HF9, <<117>>>>, \* "u"
  <<\HFA, <<117>>>>, \* "u"
  <<\HFB, <<117>>>>, \* "u"
  <<\HFC, <<117>>>>, \* "u"
  <<\HFD, <<121>>>>, \* "y"
  <<\HFE, <<116, 104>>>>, \* "th"
  <<\HFF, <<121>>>>, \* "y"
  <<\H100, <<65>>>>, \* "A"
  <<\H101, <<97>>>>, \* "a"
  <<\H102, <<65>>>>, \* "A"
  <<\H103, <<97>>>>, \* "a"
  <<\H104, <<65>>>>, \* "A"
  <<\H105, <<97>>>>, \* "a"
  <<\H106, <<67>>>>, \* "C"
  <<\H107, <<99>>>>, \* "c"
  <<\H10C, <<67>>>>, \* "C"
  <<\H10D, <<99>>>>, \* "c"
  <<\H10E, <<68>>>>, \* "D"
  <<\H10F, <<100>>>>, \* "d"
  <<\H110, <<68, 74>>>>, \* "DJ"
  <<\H111, <<100, 106>>>>, \* "dj"
  <<\H112, <<69>>>>, \* "E"
  <<\H113, <<101>>>>, \* "e"
  <<\H116, <<69>>>>, \* "E"
  <<\H117, <<101>>>>, \* "e"
  <<\H118, <<101>>>>, \* "e"
  <<\H119, <<101>>>>, \* "e"
  <<\H11A, <<69>>>>, \* "E"
  <<\H11B, <<101>>>>, \* "e"
  <<\H11E, <<71>>>>, \* "G"
  <<\H11F, <<103>>>>, \* "g"
  <<\H122, <<71>>>>, \* "G"
  <<\H123, <<103>>>>, \* "g"
  <<\H128, <<73>>>>, \* "I"
  <<\H129, <<105>>>>, \* "i"
  <<\H12A, <<105>>>>, \* "i"
  <<\H12B, <<105>>>>, \* "i"
  <<\H12E, <<73>>>>, \* "I"
  <<\H12F, <<105>>>>, \* "i"
  <<\H130, <<73>>>>, \* "I"
  <<\H131, <<105>>>>, \* "i"
  <<\H136, <<107>>>>, \* "k"
  <<\H137, <<107>>>>, \* "k"
  <<\H13B, <<76>>>>, \* "L"
  <<\H13C, <<108>>>>, \* "l"
  <<\H13D, <<76>>>>, \* "L"
  <<\H13E, <<108>>>>, \* "l"
  <<\H141, <<76>>>>, \* "L"
  <<\H142, <<108>>>>, \* "l"
  <<\H143, <<78>>>>, \* "N"
  <<\H144, <<110>>>>, \* "n"
  <<\H145, <<78>>>>, \* "N"
  <<\H146, <<110>>>>, \* "n"
  <<\H147, <<78>>>>, \* "N"
  <<\H148, <<110>>>>, \* "n"
  <<\H14C, <<79>>>>, \* "O"
  <<\H14D, <<111>>>>, \* "o"
  <<\H150, <<79>>>>, \* "O"
  <<\H151, <<111>>>>, \* "o"
  <<\H152, <<79, 69>>>>, \* "OE"
  <<\H153, <<111, 101>>>>, \* "oe"
  <<\H154, <<82>>>>, \* "R"
  <<\H155, <<114>>>>, \* "r"
  <<\H158, <<82>>>>, \* "R"
  <<\H159, <<114>>>>, \* "r"
  <<\H15A, <<83>>>>, \* "S"
  <<\H15B, <<115>>>>, \* "s"
  <<\H15E, <<83>>>>, \* "S"
  <<\H15F, <<115>>>>, \* "s"
  <<\H160, <<83>>>>, \* "S"
  <<\H161, <<115>>>>, \* "s"
  <<\H162, <<84>>>>, \* "T"
  <<\H163, <<116>>>>, \* "t"
  <<\H164, <<84>>>>, \* "T"
  <<\H165, <<116>>>>, \* "t"
  <<\H168, <<85>>>>, \* "U"
  <<\H169, <<117>>>>, \* "u"
  <<\H16A, <<117>>>>, \* "u"
  <<\H16B, <<117>>>>, \* "u"
  <<\H16E, <<85>>>>, \* "U"
  <<\H16F, <<117>>>>, \* "u"
  <<\H170, <<85>>>>, \* "U"
  <<\H171, <<117>>>>, \* "u"
  <<\H172, <<85>>>>, \* "U"
  <<\H173, <<117>>>>, \* "u"
  <<\H174, <<87>>>>, \* "W"
  <<\H175, <<119>>>>, \* "w"
  <<\H176, <<89>>>>, \* "Y"
  <<\H177, <<121>>>>, \* "y"
  <<\H178, <<89>>>>, \* "Y"
  <<\H179, <<90>>>>, \* "Z"
  <<\H17A, <<122>>>>, \* "z"
  <<\H17B, <<90>>>>, \* "Z"
  <<\H17C, <<122>>>>, \* "z"
  <<\H17D, <<90>>>>, \* "Z"
  <<\H17E, <<122>>>>, \* "z"
  <<\H18F, <<69>>>>, \* "E"
  <<\H192, <<102>>>>, \* "f"
  <<\H1A0, <<79>>>>, \* "O"
  <<\H1A1, <<111>>>>, \* "o"
  <<\H1AF, <<85>>>>, \* "U"
  <<\H1B0, <<117>>>>, \* "u"
  <<\H1C8, <<76, 74>>>>, \* "LJ"
  <<\H1C9, <<108, 106>>>>, \* "lj"
  <<\H1CB, <<78, 74>>>>, \* "NJ"
  <<\H1CC, <<110, 106>>>>, \* "nj"
  <<\H218, <<83>>>>, \* "S"
  <<\H219, <<115>>>>, \* "s"
  <<\H21A, <<84>>>>, \* "T"
  <<\H21B, <<116>>>>, \* "t"
  <<\H259, <<101>>>>, \* "e"
  <<\H2DA, <<111>>>>, \* "o"
  <<\H386, <<65>>>>, \* "A"
  <<\H388, <<69>>>>, \* "E"
  <<\H389, <<72>>>>, \* "H"
  <<\H38A, <<73>>>>, \* "I"
  <<\H38C, <<79>>>>, \* "O"
  <<\H38E, <<89>>>>, \* "Y"
  <<\H38F, <<87>>>>, \* "W"
  <<\H390, <<105>>>>, \* "i"
  <<\H391, <<65>>>>, \* "A"
  <<\H392, <<66>>>>, \* "B"
  <<\H393, <<71>>>>, \* "G"
  <<\H394, <<68>>>>, \* "D"
  <<\H395, <<69>>>>, \* "E"
  <<\H396, <<90>>>>, \* "Z"
  <<\H397, <<72>>>>, \* "H"
  <<\H398, <<56>>>>, \* "8"
  <<\H399, <<73>>>>, \* "I"
  <<\H39A, <<75>>>>, \* "K"
  <<\H39B, <<76>>>>, \* "L"
  <<\H39C, <<77>>>>, \* "M"
  <<\H39D, <<78>>>>, \* "N"
  <<\H39E, <<51>>>>, \* "3"
  <<\H39F, <<79>>>>, \* "O"
  <<\H3A0, <<80>>>>, \* "P"
  <<\H3A1, <<82>>>>, \* "R"
  <<\H3A3, <<83>>>>, \* "S"
  <<\H3A4, <<84>>>>, \* "T"
  <<\H3A5, <<89>>>>, \* "Y"
  <<\H3A6, <<70>>>>, \* "F"
  <<\H3A7, <<88>>>>, \* "X"
  <<\H3A8, <<80, 83>>>>, \* "PS"
  <<\H3A9, <<87>>>>, \* "W"
  <<\H3AA, <<73>>>>, \* "I"
  <<\H3AB, <<89>>>>, \* "Y"
  <<\H3AC, <<97>>>>, \* "a"
  <<\H3AD, <<101>>>>, \* "e"
  <<\H3AE, <<104>>>>, \* "h"
  <<\H3AF, <<105>>>>, \* "i"
  <<\H3B0, <<121>>>>, \* "y"
  <<\H3B1, <<97>>>>, \* "a"
  <<\H3B2, <<98>>>>, \* "b"
  <<\H3B3, <<103>>>>, \* "g"
  <<\H3B4, <<100>>>>, \* "d"
  <<\H3B5, <<101>>>>, \* "e"
  <<\H3B6, <<122>>>>, \* "z"
  <<\H3B7, <<104>>>>, \* "h"
  <<\H3B8, <<56>>>>, \* "8"
  <<\H3B9, <<105>>>>, \* "i"
  <<\H3BA, <<107>>>>, \* "k"
  <<\H3BB, <<108>>>>, \* "l"
  <<\H3BC, <<109>>>>, \* "m"
  <<\H3BD, <<110>>>>, \* "n"
  <<\H3BE, <<51>>>>, \* "3"
  <<\H3BF, <<111>>>>, \* "o"
  <<\H3C0, <<112>>>>, \* "p"
  <<\H3C1, <<114>>>>, \* "r"
  <<\H3C2, <<115>>>>, \* "s"
  <<\H3C3, <<115>>>>, \* "s"
  <<\H3C4, <<116>>>>, \* "t"
  <<\H3C5, <<121>>>>, \* "y"
  <<\H3C6, <<102>>>>, \* "f"
  <<\H3C7, <<120>>>>, \* "x"
  <<\H3C8, <<112, 115>>>>, \* "ps"
  <<\H3C9, <<119>>>>, \* "w"
  <<\H3CA, <<105>>>>, \* "i"
  <<\H3CB, <<121>>>>, \* "y"
  <<\H3CC, <<111>>>>, \* "o"
  <<\H3CD, <<121>>>>, \* "y"
  <<\H3CE, <<119>>>>, \* "w"
  <<\H401, <<89, 111>>>>, \* "Yo"
  <<\H402, <<68, 74>>>>, \* "DJ"
  <<\H404, <<89, 101>>>>, \* "Ye"
  <<\H406, <<73>>>>, \* "I"
  <<\H407, <<89, 105>>>>, \* "Yi"
  <<\H408, <<74>>>>, \* "J"
  <<\H409, <<76, 74>>>>, \* "LJ"
  <<\H40A, <<78, 74>>>>, \* "NJ"
  <<\H40B, <<67>>>>, \* "C"
  <<\H40F, <<68, 90>>>>, \* "DZ"
  <<\H410, <<65>>>>, \* "A"
  <<\H411, <<66>>>>, \* "B"
  <<\H412, <<86>>>>, \* "V"
  <<\H413, <<71>>>>, \* "G"
  <<\H414, <<68>>>>, \* "D"
  <<\H415, <<69>>>>, \* "E"
  <<\H416, <<90, 104>>>>, \* "Zh"
  <<\H417, <<90>>>>, \* "Z"
  <<\H418, <<73>>>>, \* "I"
  <<\H419, <<74>>>>, \* "J"
  <<\H41A, <<75>>>>, \* "K"
  <<\H41B, <<76>>>>, \* "L"
  <<\H41C, <<77>>>>, \* "M"
  <<\H41D, <<78>>>>, \* "N"
  <<\H41E, <<79>>>>, \* "O"
  <<\H41F, <<80>>>>, \* "P"
  <<\H420, <<82>>>>, \* "R"
  <<\H421, <<83>>>>, \* "S"
  <<\H422, <<84>>>>, \* "T"
  <<\H423, <<85>>>>, \* "U"
  <<\H424, <<70>>>>, \* "F"
  <<\H425, <<72>>>>, \* "H"
  <<\H426, <<67>>>>, \* "C"
  <<\H427, <<67, 104>>>>, \* "Ch"
  <<\H428, <<83, 104>>>>, \* "Sh"
  <<\H429, <<83, 104>>>>, \* "Sh"
  <<\H42A, <<85>>>>, \* "U"
  <<\H42B, <<89>>>>, \* "Y"
  <<\H42C, <<>>>>, \* ""
  <<\H42D, <<69>>>>, \* "E"
  <<\H42E, <<89, 117>>>>, \* "Yu"
  <<\H42F, <<89, 97>>>>, \* "Ya"
  <<\H430, <<97>>>>, \* "a"
  <<\H431, <<98>>>>, \* "b"
  <<\H432, <<118>>>>, \* "v"
  <<\H433, <<103>>>>, \* "g"
  <<\H434, <<100>>>>, \* "d"
  <<\H435, <<101>>>>, \* "e"
  <<\H436, <<122, 104>>>>, \* "zh"
  <<\H437, <<122>>>>, \* "z"
  <<\H438, <<105>>>>, \* "i"
  <<\H439, <<106>>>>, \* "j"
  <<\H43A, <<107>>>>, \* "k"
  <<\H43B, <<108>>>>, \* "l"
  <<\H43C, <<109>>>>, \* "m"
  <<\H43D, <<110>>>>, \* "n"
  <<\H43E, <<111>>>>, \* "o"
  <<\H43F, <<112>>>>, \* "p"
  <<\H440, <<114>>>>, \* "r"
  <<\H441, <<115>>>>, \* "s"
  <<\H442, <<116>>>>, \* "t"
  <<\H443, <<117>>>>, \* "u"
  <<\H444, <<102>>>>, \* "f"
  <<\H445, <<104>>>>, \* "h"
  <<\H446, <<99>>>>, \* "c"
  <<\H447, <<99, 104>>>>, \* "ch"
  <<\H448, <<115, 104>>>>, \* "sh"
  <<\H449, <<115, 104>>>>, \* "sh"
  <<\H44A, <<117>>>>, \* "u"
  <<\H44B, <<121>>>>, \* "y"
  <<\H44C, <<>>>>, \* ""
  <<\H44D, <<101>>>>, \* "e"
  <<\H44E, <<121, 117>>>>, \* "yu"
  <<\H44F, <<121, 97>>>>, \* "ya"
  <<\H451, <<121, 111>>>>, \* "yo"
  <<\H452, <<100, 106>>>>, \* "dj"
  <<\H454, <<121, 101>>>>, \* "ye"
  <<\H456, <<105>>>>, \* "i"
  <<\H457, <<121, 105>>>>, \* "yi"
  <<\H458, <<106>>>>, \* "j"
  <<\H459, <<108, 106>>>>, \* "lj"
  <<\H45A, <<110, 106>>>>, \* "nj"
  <<\H45B, <<99>>>>, \* "c"
  <<\H45D, <<117>>>>, \* "u"
  <<\H45F, <<100, 122>>>>, \* "dz"
  <<\H490, <<71>>>>, \* "G"
  <<\H491, <<103>>>>, \* "g"
  <<\H492, <<71, 72>>>>, \* "GH"
  <<\H493, <<103, 104>>>>, \* "gh"
  <<\H49A, <<75, 72>>>>, \* "KH"
  <<\H49B, <<107, 104>>>>, \* "kh"
  <<\H4A2, <<78, 71>>>>, \* "NG"
  <<\H4A3, <<110, 103>>>>, \* "ng"
  <<\H4AE, <<85, 69>>>>, \* "UE"
  <<\H4AF, <<117, 101>>>>, \* "ue"
  <<\H4B0, <<85>>>>, \* "U"
  <<\H4B1, <<117>>>>, \* "u"
  <<\H4BA, <<72>>>>, \* "H"
  <<\H4BB, <<104>>>>, \* "h"
  <<\H4D8, <<65, 69>>>>, \* "AE"
  <<\H4D9, <<97, 101>>>>, \* "ae"
  <<\H4E8, <<79, 69>>>>, \* "OE"
  <<\H4E9, <<111, 101>>>>, \* "oe"
  <<\H621, <<97>>>>, \* "a"
  <<\H622, <<97, 97>>>>, \* "aa"
  <<\H623, <<97>>>>, \* "a"
  <<\H624, <<117>>>>, \* "u"
  <<\H625, <<105>>>>, \* "i"
  <<\H626, <<101>>>>, \* "e"
  <<\H627, <<97>>>>, \* "a"
  <<\H628, <<98>>>>, \* "b"
  <<\H629, <<104>>>>, \* "h"
  <<\H62A, <<116>>>>, \* "t"
  <<\H62B, <<116, 104>>>>, \* "th"
  <<\H62C, <<106>>>>, \* "j"
  <<\H62D, <<104>>>>, \* "h"
  <<\H62E, <<107, 104>>>>, \* "kh"
  <<\H62F, <<100>>>>, \* "d"
  <<\H630, <<116, 104>>>>, \* "th"
  <<\H631, <<114>>>>, \* "r"
  <<\H632, <<122>>>>, \* "z"
  <<\H633, <<115>>>>, \* "s"
  <<\H634, <<115, 104>>>>, \* "sh"
  <<\H635, <<115>>>>, \* "s"
  <<\H636, <<100, 104>>>>, \* "dh"
  <<\H637, <<116>>>>, \* "t"
  <<\H638, <<122>>>>, \* "z"
  <<\H639, <<97>>>>, \* "a"
  <<\H63A, <<103, 104>>>>, \* "gh"
  <<\H641, <<102>>>>, \* "f"
  <<\H642, <<113>>>>, \* "q"
  <<\H643, <<107>>>>, \* "k"
  <<\H644, <<108>>>>, \* "l"
  <<\H645, <<109>>>>, \* "m"
  <<\H646, <<110>>>>, \* "n"
  <<\H647, <<104>>>>, \* "h"
  <<\H648, <<119>>>>, \* "w"
  <<\H649, <<97>>>>, \* "a"
  <<\H64A, <<121>>>>, \* "y"
  <<\H64B, <<97, 110>>>>, \* "an"
  <<\H64C, <<111, 110>>>>, \* "on"
  <<\H64D, <<101, 110>>>>, \* "en"
  <<\H64E, <<97>>>>, \* "a"
  <<\H64F, <<117>>>>, \* "u"
  <<\H650, <<101>>>>, \* "e"
  <<\H651, <<>>>>, \* ""
  <<\H660, <<48>>>>, \* "0"
  <<\H661, <<49>>>>, \* "1"
  <<\H662, <<50>>>>, \* "2"
  <<\H663, <<51>>>>, \* "3"
  <<\H664, <<52>>>>, \* "4"
  <<\H665, <<53>>>>, \* "5"
  <<\H666, <<54>>>>, \* "6"
  <<\H667, <<55>>>>, \* "7"
  <<\H668, <<56>>>>, \* "8"
  <<\H669, <<57>>>>, \* "9"
  <<\H67E, <<112>>>>, \* "p"
  <<\H686, <<99, 104>>>>, \* "ch"
  <<\H698, <<122, 104>>>>, \* "zh"
  <<\H6A9, <<107>>>>, \* "k"
  <<\H6AF, <<103>>>>, \* "g"
  <<\H6CC, <<121>>>>, \* "y"
  <<\H6F0, <<48>>>>, \* "0"
  <<\H6F1, <<49>>>>, \* "1"
  <<\H6F2, <<50>>>>, \* "2"
  <<\H6F3, <<51>>>>, \* "3"
  <<\H6F4, <<52>>>>, \* "4"
  <<\H6F5, <<53>>>>, \* "5"
  <<\H6F6, <<54>>>>, \* "6"
  <<\H6F7, <<55>>>>, \* "7"
  <<\H6F8, <<56>>>>, \* "8"
  <<\H6F9, <<57>>>>, \* "9"
  <<\H10D0, <<97>>>>, \* "a"
  <<\H10D1, <<98>>>>, \* "b"
  <<\H10D2, <<103>>>>, \* "g"
  <<\H10D3, <<100>>>>, \* "d"
  <<\H10D4, <<101>>>>, \* "e"
  <<\H10D5, <<118>>>>, \* "v"
  <<\H10D6, <<122>>>>, \* "z"
  <<\H10D7, <<116>>>>, \* "t"
  <<\H10D8, <<105>>>>, \* "i"
  <<\H10D9, <<107>>>>, \* "k"
  <<\H10DA, <<108>>>>, \* "l"
  <<\H10DB, <<109>>>>, \* "m"
  <<\H10DC, <<110>>>>, \* "n"
  <<\H10DD, <<111>>>>, \* "o"
  <<\H10DE, <<112>>>>, \* "p"
  <<\H10DF, <<122, 104>>>>, \* "zh"
  <<\H10E0, <<114>>>>, \* "r"
  <<\H10E1, <<115>>>>, \* "s"
  <<\H10E2, <<116>>>>, \* "t"
  <<\H10E3, <<117>>>>, \* "u"
  <<\H10E4, <<102>>>>, \* "f"
  <<\H10E5, <<107>>>>, \* "k"
  <<\H10E6, <<103, 104>>>>, \* "gh"
  <<\H10E7, <<113>>>>, \* "q"
  <<\H10E8, <<115, 104>>>>, \* "sh"
  <<\H10E9, <<99, 104>>>>, \* "ch"
  <<\H10EA, <<116, 115>>>>, \* "ts"
  <<\H10EB, <<100, 122>>>>, \* "dz"
  <<\H10EC, <<116, 115>>>>, \* "ts"
  <<\H10ED, <<99, 104>>>>, \* "ch"
  <<\H10EE, <<107, 104>>>>, \* "kh"
  <<\H10EF, <<106>>>>, \* "j"
  <<\H10F0, <<104>>>>, \* "h"
  <<\H1EA0, <<65>>>>, \* "A"
  <<\H1EA1, <<97>>>>, \* "a"
  <<\H1EA2, <<65>>>>, \* "A"
  <<\H1EA3, <<97>>>>, \* "a"
  <<\H1EA4, <<65>>>>, \* "A"
  <<\H1EA5, <<97>>>>, \* "a"
  <<\H1EA6, <<65>>>>, \* "A"
  <<\H1EA7, <<97>>>>, \* "a"
  <<\H1EA8, <<65>>>>, \* "A"
  <<\H1EA9, <<97>>>>, \* "a"
  <<\H1EAA, <<65>>>>, \* "A"
  <<\H1EAB, <<97>>>>, \* "a"
  <<\H1EAC, <<65>>>>, \* "A"
  <<\H1EAD, <<97>>>>, \* "a"
  <<\H1EAE, <<65>>>>, \* "A"
  <<\H1EAF, <<97>>>>, \* "a"
  <<\H1EB0, <<65>>>>, \* "A"
  <<\H1EB1, <<97>>>>, \* "a"
  <<\H1EB2, <<65>>>>, \* "A"
  <<\H1EB3, <<97>>>>, \* "a"
  <<\H1EB4, <<65>>>>, \* "A"
  <<\H1EB5, <<97>>>>, \* "a"
  <<\H1EB6, <<65>>>>, \* "A"
  <<\H1EB7, <<97>>>>, \* "a"
  <<\H1EB8, <<69>>>>, \* "E"
  <<\H1EB9, <<101>>>>, \* "e"
  <<\H1EBA, <<69>>>>, \* "E"
  <<\H1EBB, <<101>>>>, \* "e"
  <<\H1EBC, <<69>>>>, \* "E"
  <<\H1EBD, <<101>>>>, \* "e"
  <<\H1EBE, <<69>>>>, \* "E"
  <<\H1EBF, <<101>>>>, \* "e"
  <<\H1EC0, <<69>>>>, \* "E"
  <<\H1EC1, <<101>>>>, \* "e"
  <<\H1EC2, <<69>>>>, \* "E"
  <<\H1EC3, <<101>>>>, \* "e"
  <<\H1EC4, <<69>>>>, \* "E"
  <<\H1EC5, <<101>>>>, \* "e"
  <<\H1EC6, <<69>>>>, \* "E"
  <<\H1EC7, <<101>>>>, \* "e"
  <<\H1EC8, <<73>>>>, \* "I"
  <<\H1EC9, <<105>>>>, \* "i"
  <<\H1ECA, <<73>>>>, \* "I"
  <<\H1ECB, <<105>>>>, \* "i"
  <<\H1ECC, <<79>>>>, \* "O"
  <<\H1ECD, <<111>>>>, \* "o"
  <<\H1ECE, <<79>>>>, \* "O"
  <<\H1ECF, <<111>>>>, \* "o"
  <<\H1ED0, <<79>>>>, \* "O"
  <<\H1ED1, <<111>>>>, \* "o"
  <<\H1ED2, <<79>>>>, \* "O"
  <<\H1ED3, <<111>>>>, \* "o"
  <<\H1ED4, <<79>>>>, \* "O"
  <<\H1ED5, <<111>>>>, \* "o"
  <<\H1ED6, <<79>>>>, \* "O"
  <<\H1ED7, <<111>>>>, \* "o"
  <<\H1ED8, <<79>>>>, \* "O"
  <<\H1ED9, <<111>>>>, \* "o"
  <<\H1EDA, <<79>>>>, \* "O"
  <<\H1EDB, <<111>>>>, \* "o"
  <<\H1EDC, <<79>>>>, \* "O"
  <<\H1EDD, <<111>>>>, \* "o"
  <<\H1EDE, <<79>>>>, \* "O"
  <<\H1EDF, <<111>>>>, \* "o"
  <<\H1EE0, <<79>>>>, \* "O"
  <<\H1EE1, <<111>>>>, \* "o"
  <<\H1EE2, <<79>>>>, \* "O"
  <<\H1EE3, <<111>>>>, \* "o"
  <<\H1EE4, <<85>>>>, \* "U"
  <<\H1EE5, <<117>>>>, \* "u"
  <<\H1EE6, <<85>>>>, \* "U"
  <<\H1EE7, <<117>>>>, \* "u"
  <<\H1EE8, <<85>>>>, \* "U"
  <<\H1EE9, <<117>>>>, \* "u"
  <<\H1EEA, <<85>>>>, \* "U"
  <<\H1EEB, <<117>>>>, \* "u"
  <<\H1EEC, <<85>>>>, \* "U"
  <<\H1EED, <<117>>>>, \* "u"
  <<\H1EEE, <<85>>>>, \* "U"
  <<\H1EEF, <<117>>>>, \* "u"
  <<\H1EF0, <<85>>>>, \* "U"
  <<\H1EF1, <<117>>>>, \* "u"
  <<\H1EF2, <<89>>>>, \* "Y"
  <<\H1EF3, <<121>>>>, \* "y"
  <<\H1EF4, <<89>>>>, \* "Y"
  <<\H1EF5, <<121>>>>, \* "y"
  <<\H1EF6, <<89>>>>, \* "Y"
  <<\H1EF7, <<121>>>>, \* "y"
  <<\H1EF8, <<89>>>>, \* "Y"
  <<\H1EF9, <<121>>>>, \* "y"
  <<\H2013, <<45>>>>, \* "-"
  <<\H2018, <<39>>>>, \* "'"
  <<\H2019, <<39>>>>, \* "'"
  <<\H201C, <<34>>>>, \* """
  <<\H201D, <<34>>>>, \* """
  <<\H201E, <<34>>>>, \* """
  <<\H2020, <<43>>>>, \* "+"
  <<\H2022, <<42>>>>, \* "*"
  <<\H2026, <<46, 46, 46>>>>, \* "..."
  <<\H20A0, <<101, 99, 117>>>>, \* "ecu"
  <<\H20A2, <<99, 114, 117, 122, 101, 105, 114, 111>>>>, \* "cruzeiro"
  <<\H20A3, <<102, 114, 101, 110, 99, 104, 32, 102, 114, 97, 110, 99>>>>, \* "french franc"
  <<\H20A4, <<108, 105, 114, 97>>>>, \* "lira"
  <<\H20A5, <<109, 105, 108, 108>>>>, \* "mill"
  <<\H20A6, <<110, 97, 105, 114, 97>>>>, \* "naira"
  <<\H20A7, <<112, 101, 115, 101, 116, 97>>>>, \* "peseta"
  <<\H20A8, <<114, 117, 112, 101, 101>>>>, \* "rupee"
  <<\H20A9, <<119, 111, 110>>>>, \* "won"
  <<\H20AA, <<110, 101, 119, 32, 115, 104, 101, 113, 117, 101, 108>>>>, \* "new shequel"
  <<\H20AB, <<100, 111, 110, 103>>>>, \* "dong"
  <<\H20AC, <<101, 117, 114, 111>>>>, \* "euro"
  <<\H20AD, <<107, 105, 112>>>>, \* "kip"
  <<\H20AE, <<116, 117, 103, 114, 105, 107>>>>, \* "tugrik"
  <<\H20AF, <<100, 114, 97, 99, 104, 109, 97>>>>, \* "drachma"
  <<\H20B0, <<112, 101, 110, 110, 121>>>>, \* "penny"
  <<\H20B1, <<112, 101, 115, 111>>>>, \* "peso"
  <<\H20B2, <<103, 117, 97, 114, 97, 110, 105>>>>, \* "guarani"
  <<\H20B3, <<97, 117, 115, 116, 114, 97, 108>>>>, \* "austral"
  <<\H20B4, <<104, 114, 121, 118, 110, 105, 97>>>>, \* "hryvnia"
  <<\H20B5, <<99, 101, 100, 105>>>>, \* "cedi"
  <<\H20B8, <<107, 97, 122, 97, 107, 104, 115, 116, 97, 110, 105, 32, 116, 101, 110, 103, 101>>>>, \* "kazakhstani tenge"
  <<\H20B9, <<105, 110, 100, 105, 97, 110, 32, 114, 117, 112, 101, 101>>>>, \* "indian rupee"
  <<\H20BA, <<116, 117, 114, 107, 105, 115, 104, 32, 108, 105, 114, 97>>>>, \* "turkish lira"
  <<\H20BD, <<114, 117, 115, 115, 105, 97, 110, 32, 114, 117, 98, 108, 101>>>>, \* "russian ruble"
  <<\H20BF, <<98, 105, 116, 99, 111, 105, 110>>>>, \* "bitcoin"
  <<\H2120, <<115, 109>>>>, \* "sm"
  <<\H2122, <<116, 109>>>>, \* "tm"
  <<\H2202, <<100>>>>, \* "d"
  <<\H2206, <<100, 101, 108, 116, 97>>>>, \* "delta"
  <<\H2211, <<115, 117, 109>>>>, \* "sum"
  <<\H221E, <<105, 110, 102, 105, 110, 105, 116, 121>>>>, \* "infinity"
  <<\H2665, <<108, 111, 118, 101>>>>, \* "love"
  <<\H5143, <<121, 117, 97, 110>>>>, \* "yuan"
  <<\H5186, <<121, 101, 110>>>>, \* "yen"
  <<\HFDFC, <<114, 105, 97, 108>>>>, \* "rial"
  <<\HFDF5, <<108, 97, 97>>>>, \* "laa"
  <<\HFDF7, <<108, 97, 97>>>>, \* "laa"
  <<\HFDF9, <<108, 97, 105>>>>, \* "lai"
  <<\HFDFB, <<108, 97>>>>, \* "la"
  <<0, NULL>>   \* End marker
  >>

\* index of the last real entry: sizeof(table)/sizeof(table[0]) - 2
TableHi == Len(transliteration_table) - 2

\* Binary search in the transliteration table (C index k is entry k+1)
RECURSIVE BinarySearch(_, _, _)
BinarySearch(codepoint, lo, hi) ==
  IF lo > hi THEN NULL
  ELSE
    LET mid == (lo + hi) \div 2
        u   == transliteration_table[mid + 1][1]
    IN IF u = codepoint THEN transliteration_table[mid + 1][2]
       ELSE IF u < codepoint THEN BinarySearch(codepoint, mid + 1, hi)
       ELSE BinarySearch(codepoint, lo, mid - 1)

transliterate_char(codepoint) == BinarySearch(codepoint, 0, TableHi)

\* The unchecked decoder: the code point and the number of bytes consumed
\* at offset i, read from the string str followed in memory by t.
utf8_decode(str, t, i) ==
  LET c  == ByteAt(str, t, i)
      b1 == ByteAt(str, t, i + 1)
      b2 == ByteAt(str, t, i + 2)
      b3 == ByteAt(str, t, i + 3)
  IN IF c < \H80 THEN [codepoint |-> c, consumed |-> 1]
     ELSE IF IsLead2(c) THEN
       [codepoint |-> (c % 32) * 64 + Low6(b1), consumed |-> 2]
     ELSE IF IsLead3(c) THEN
       [codepoint |-> (c % 16) * 4096 + Low6(b1) * 64 + Low6(b2), consumed |-> 3]
     ELSE IF IsLead4(c) THEN
       [codepoint |-> (c % 8) * 262144 + Low6(b1) * 4096 + Low6(b2) * 64 + Low6(b3),
        consumed |-> 4]
     ELSE [codepoint |-> c, consumed |-> 1]

\* ------------------------------------------------------------------------
\* slugify_length: what one code point adds to the estimate
\* ------------------------------------------------------------------------
\* EstimateOf counting nothing for whitespace and punctuation
EstimateOf_nosep(codepoint, consumed, preserve_case) ==
  IF codepoint < 128 THEN
    IF isalnum(codepoint) THEN 1
    ELSE IF transliterate_char(codepoint) # NULL
      THEN strlen(transliterate_char(codepoint))
    ELSE 0
  ELSE IF preserve_case THEN consumed
  ELSE IF transliterate_char(codepoint) # NULL
    THEN strlen(transliterate_char(codepoint))
  ELSE 0

EstimateOf(codepoint, consumed, preserve_case) ==
  IF codepoint < 128 THEN
    IF isalnum(codepoint) THEN 1
    ELSE IF transliterate_char(codepoint) # NULL
      THEN strlen(transliterate_char(codepoint))
    ELSE IF isspace(codepoint) \/ ispunct(codepoint) THEN 1
    ELSE 0
  ELSE IF preserve_case THEN consumed
  ELSE IF transliterate_char(codepoint) # NULL
    THEN strlen(transliterate_char(codepoint))
  ELSE 0

\* ------------------------------------------------------------------------
\* slugify_ex: the output buffer and one iteration of the writing loop
\* ------------------------------------------------------------------------
Max(a, b) == IF a >= b THEN a ELSE b

\* output[j] = b, on the memory starting at the buffer (index k is out[k+1])
Store(out, j, b) ==
  IF j < Len(out) THEN [out EXCEPT ![j + 1] = b] ELSE Append(out, b)

\* a buffer state: bytes, write index, highest index written so far
Put(st, b) ==
  [out |-> Store(st.out, st.j, b), j |-> st.j + 1, wmax |-> Max(st.wmax, st.j)]

\* EmitTrans writing the replacement as the table holds it
RECURSIVE EmitTrans_nofold(_, _, _, _)
EmitTrans_nofold(st, trans, k, opts) ==
  IF k >= Len(trans) THEN st
  ELSE
    LET nx == Put(st, trans[k + 1])
    IN IF opts.max_length > 0 /\ nx.j >= opts.max_length THEN nx
       ELSE EmitTrans_nofold(nx, trans, k + 1, opts)

\* for (k = 0; k < trans_len; k++) { output[j++] = c2; if (max_length > 0 && j >= max_length) break; }
RECURSIVE EmitTrans(_, _, _, _)
EmitTrans(st, trans, k, opts) ==
  IF k >= Len(trans) THEN st
  ELSE
    LET c2 == IF opts.preserve_case THEN trans[k + 1] ELSE tolower(trans[k + 1])
        nx == Put(st, c2)
    IN IF opts.max_length > 0 /\ nx.j >= opts.max_length THEN nx
       ELSE EmitTrans(nx, trans, k + 1, opts)

\* for (k = 0; k < consumed; k++) output[j++] = input[i + k];
RECURSIVE CopyBytes(_, _, _, _, _)
CopyBytes(st, str, i, k, consumed) ==
  IF k >= consumed THEN st
  ELSE CopyBytes(Put(st, ByteAt(str, <<>>, i + k)), str, i, k + 1, consumed)

\* TransOverflows leaving no room for the terminator
TransOverflows_gt(j, trans_len, out_size) == j + trans_len > out_size

\* the bounds test that guards a transliteration: j + trans_len >= out_size
TransOverflows(j, trans_len, out_size) == j + trans_len >= out_size

\* the bounds test that guards a verbatim copy: j + consumed >= out_size
CopyOverflows(j, consumed, out_size) == j + consumed >= out_size

\* the test that lets a separator character emit the separator
SeparatorDue(st, opts) == st.j > 0 /\ st.out[st.j] # opts.separator

\* One iteration of the loop body at input offset i.  kind is "next" (go on
\* with i + consumed), "break" (max_length reached) or "buffer"
\* (return SLUGIFY_ERROR_BUFFER).
LoopBody(str, i, st, out_size, opts) ==
  LET d        == utf8_decode(str, <<>>, i)
      cp       == d.codepoint
      trans    == transliterate_char(cp)
      Go(s)    == [kind |-> "next", st |-> s]
      Overflow == [kind |-> "buffer", st |-> st]
  IN IF opts.max_length > 0 /\ st.j >= opts.max_length
       THEN [kind |-> "break", st |-> st]
     ELSE IF cp < 128 THEN
       IF isalnum(cp) THEN
         IF st.j + 1 >= out_size THEN Overflow
         ELSE Go(Put(st, IF opts.preserve_case THEN cp ELSE tolower(cp)))
       ELSE IF trans # NULL THEN
         IF TransOverflows(st.j, strlen(trans), out_size) THEN Overflow
         ELSE Go(EmitTrans(st, trans, 0, opts))
       ELSE IF isspace(cp) \/ cp = 45 \/ cp = 95 \/ ispunct(cp) THEN
         IF SeparatorDue(st, opts) THEN
           IF st.j + 1 >= out_size THEN Overflow
           ELSE Go(Put(st, opts.separator))
         ELSE Go(st)
       ELSE Go(st)
     ELSE IF opts.preserve_case THEN
       IF CopyOverflows(st.j, d.consumed, out_size) THEN Overflow
       ELSE Go(CopyBytes(st, str, i, 0, d.consumed))
     ELSE IF trans # NULL THEN
       IF TransOverflows(st.j, strlen(trans), out_size) THEN Overflow
       ELSE Go(EmitTrans(st, trans, 0, opts))
     ELSE Go(st)

\* ------------------------------------------------------------------------
\* Bounds and the inputs explored
\* ------------------------------------------------------------------------
\* slugify's inputs are concatenations of at most MaxPieces pieces
MaxPieces == 3

\* slugify_ex's inputs are concatenations of at most MaxPiecesEx pieces
MaxPiecesEx == 2

\* max_length ranges over 0..MaxMaxLength (0 = no limit)
MaxMaxLength == 1

\* capacities handed to slugify_ex directly range over 0..MaxOutSize
MaxOutSize == 4

\* well-formed characters
ValidPieces ==
  { <<\H41>>,                       \* 'A'
    <<\H20>>,                       \* ' '
    <<\H24>>,                       \* '$'  -> "dollar"
    <<\HC3, \H89>>,                 \* U+00C9 -> "E"
    <<\HC2, \HA9>>,                 \* U+00A9 -> "(c)"
    <<\HE2, \H80, \H93>>,           \* U+2013 -> "-"
    <<\HF0, \H9F, \H98, \H80>> }    \* U+1F600, not in the table

\* malformed sequences
InvalidPieces ==
  { <<\HC1, \H81>>,                 \* overlong 2-byte 'A'
    <<\HE0, \H81, \H81>>,           \* overlong 3-byte 'A'
    <<\HF0, \H80, \H81, \H81>>,     \* overlong 4-byte 'A'
    <<\HE0, \H9F, \HBF>>,           \* overlong 3-byte U+07FF
    <<\HED, \HA0, \H80>>,           \* surrogate U+D800
    <<\HEF, \HB7, \H90>>,           \* non-character U+FDD0
    <<\HF4, \H8F, \HBF, \HBF>>,     \* non-character U+10FFFF
    <<\HF4, \H90, \H80, \H80>>,     \* U+110000, beyond Unicode
    <<\HA9>>,                       \* stray continuation byte
    <<\HF8>>,                       \* invalid lead byte
    <<\HC3>>,                       \* 2-byte lead alone
    <<\HE2, \H82>>,                 \* 3-byte sequence cut short
    <<\HF0, \H9F, \H98>> }          \* 4-byte sequence cut short

Pieces == ValidPieces \cup InvalidPieces

RECURSIVE Flatten(_)
Flatten(ps) == IF ps = <<>> THEN <<>> ELSE Head(ps) \o Flatten(Tail(ps))

InputsUpTo(m) == { Flatten(ps) : ps \in UNION { [1..n -> Pieces] : n \in 0..m } }

\* the n-byte UTF-8 form of code point cp, minimal or not
Encode(cp, n) ==
  CASE n = 1 -> <<cp>>
    [] n = 2 -> <<192 + (cp \div 64), 128 + (cp % 64)>>
    [] n = 3 -> <<224 + (cp \div 4096), 128 + ((cp \div 64) % 64), 128 + (cp % 64)>>
    [] n = 4 -> <<240 + (cp \div 262144), 128 + ((cp \div 4096) % 64),
                 128 + ((cp \div 64) % 64), 128 + (cp % 64)>>

\* every ASCII code point alone, in its 1-byte form and in its overlong forms
AsciiEncodings ==
  { <<c>> : c \in 1..127 } \cup { Encode(c, n) : c \in 0..127, n \in 2..4 }

\* single code points on both sides of each range limit of the validator
BoundaryEncodings ==
  { Encode(cp, 2) : cp \in { \H7F, \H80, \H7FF } }
  \cup { Encode(cp, 3) : cp \in { \H7FF, \H800, \HD7FF, \HD800, \HDFFF, \HE000,
                                  \HFDCF, \HFDD0, \HFDEF, \HFDF0,
                                  \HFFFD, \HFFFE, \HFFFF } }
  \cup { Encode(cp, 4) : cp \in { \HFFFF, \H10000, \H1FFFD, \H1FFFE, \H1FFFF,
                                  \H10FFFD, \H10FFFE, \H10FFFF, \H110000, \H1FFFFF } }

\* the number of bytes of the minimal UTF-8 form of cp
MinLen(cp) ==
  IF cp < \H80 THEN 1 ELSE IF cp < \H800 THEN 2 ELSE IF cp < \H10000 THEN 3 ELSE 4

\* every key of the transliteration table alone, in its minimal form
TableKeyEncodings ==
  { Encode(transliteration_table[k][1], MinLen(transliteration_table[k][1])) :
      k \in 1..(TableHi + 1) }

Inputs ==
  InputsUpTo(MaxPieces) \cup AsciiEncodings \cup BoundaryEncodings \cup TableKeyEncodings

InputsEx == InputsUpTo(MaxPiecesEx)

Separators == { 45, 95 }            \* '-', '_'

Options ==
  [separator : Separators, max_length : 0..MaxMaxLength, preserve_case : BOOLEAN]

\* what the memory after the terminator may hold
Tails == { <<0>>, <<\H41, \H80, 0>> }

\* ------------------------------------------------------------------------
\* State
\* ------------------------------------------------------------------------
VARIABLES
  input,      \* the input string (its bytes, without the terminator) or NULL
  tail,       \* the bytes after the terminator, <<>> until they are read
  opts,       \* slugify_options_t
  pc,         \* "length", "malloc", "ex", "loop", "post", "ret", "done", "crash"
  i,          \* input offset of the running loop
  estimated,  \* slugify_length's estimate
  out_size,   \* capacity of the output buffer
  buf,        \* "none", "live", "freed"
  frees,      \* number of free() calls on the buffer
  output,     \* the memory starting at the buffer
  j,          \* output index
  wmax,       \* highest buffer index written so far, -1 if none
  rc,         \* slugify_ex's return code, RC_NONE before it returns
  result,     \* slugify's return value: NULL or the slug
  oob         \* TRUE once a byte past the terminator has been read

vars == <<input, tail, opts, pc, i, estimated, out_size, buf, frees,
          output, j, wmax, rc, result, oob>>

Start ==
  /\ tail = <<>>
  /\ i = 0
  /\ estimated = 0
  /\ frees = 0
  /\ output = <<>>
  /\ j = 0
  /\ wmax = -1
  /\ rc = RC_NONE
  /\ result = NULL
  /\ oob = FALSE

\* a call of slugify(input, &opts)
Init ==
  /\ input \in Inputs \cup {NULL}
  /\ opts \in Options
  /\ pc = "length"
  /\ out_size = 0
  /\ buf = "none"
  /\ Start

\* a call of slugify_ex(input, output, out_size, &opts) on a caller's buffer
InitEx ==
  /\ input \in InputsEx
  /\ opts \in Options
  /\ pc = "ex"
  /\ out_size \in 0..MaxOutSize
  /\ buf = "live"
  /\ Start

\* the buffer state the loop body works on
St == [out |-> output, j |-> j, wmax |-> wmax]

\* ------------------------------------------------------------------------
\* slugify_length
\* ------------------------------------------------------------------------
\* if (!input) return 0;  and slugify: if (len == 0) return NULL;
LengthNull ==
  /\ pc = "length"
  /\ input = NULL
  /\ pc' = "done"
  /\ result' = NULL
  /\ UNCHANGED <<input, tail, opts, i, estimated, out_size, buf, frees,
                 output, j, wmax, rc, oob>>

\* the decode at i, or the loop test after it, reads past the terminator
ReadsPastEnd ==
  i + utf8_decode(input, tail, i).consumed > Len(input)

\* the first read past the terminator finds some bytes there
ReadPastEnd ==
  /\ pc = "length"
  /\ input # NULL
  /\ tail = <<>>
  /\ ByteAt(input, tail, i) # 0
  /\ ReadsPastEnd
  /\ tail' \in Tails
  /\ oob' = TRUE
  /\ UNCHANGED <<input, opts, pc, i, estimated, out_size, buf, frees,
                 output, j, wmax, rc, result>>

\* ... or faults
ReadPastEndFault ==
  /\ pc = "length"
  /\ input # NULL
  /\ tail = <<>>
  /\ ByteAt(input, tail, i) # 0
  /\ ReadsPastEnd
  /\ pc' = "crash"
  /\ oob' = TRUE
  /\ UNCHANGED <<input, tail, opts, i, estimated, out_size, buf, frees,
                 output, j, wmax, rc, result>>

\* one iteration of the sizing loop
LengthStep ==
  /\ pc = "length"
  /\ input # NULL
  /\ ByteAt(input, tail, i) # 0
  /\ ~ReadsPastEnd \/ tail # <<>>
  /\ LET d == utf8_decode(input, tail, i)
     IN /\ estimated' = estimated + EstimateOf(d.codepoint, d.consumed, opts.preserve_case)
        /\ i' = i + d.consumed
  /\ UNCHANGED <<input, tail, opts, pc, out_size, buf, frees,
                 output, j, wmax, rc, result, oob>>

\* return estimated + 1;  slugify goes on to malloc(len)
LengthReturn ==
  /\ pc = "length"
  /\ input # NULL
  /\ ByteAt(input, tail, i) = 0
  /\ out_size' = estimated + 1
  /\ pc' = "malloc"
  /\ UNCHANGED <<input, tail, opts, i, estimated, buf, frees,
                 output, j, wmax, rc, result, oob>>

\* ------------------------------------------------------------------------
\* slugify: allocation
\* ------------------------------------------------------------------------
MallocOk ==
  /\ pc = "malloc"
  /\ buf' = "live"
  /\ pc' = "ex"
  /\ UNCHANGED <<input, tail, opts, i, estimated, out_size, frees,
                 output, j, wmax, rc, result, oob>>

\* if (!buf) return NULL;
MallocFail ==
  /\ pc = "malloc"
  /\ pc' = "done"
  /\ result' = NULL
  /\ UNCHANGED <<input, tail, opts, i, estimated, out_size, buf, frees,
                 output, j, wmax, rc, oob>>

\* ------------------------------------------------------------------------
\* slugify_ex
\* ------------------------------------------------------------------------
\* argument check, strlen and the validation pass
ExValidate ==
  /\ pc = "ex"
  /\ IF input = NULL \/ buf = "none" \/ out_size = 0
       THEN rc' = SLUGIFY_ERROR_INVALID /\ pc' = "ret"
     ELSE IF ~is_utf8_valid(input, strlen(input))
       THEN rc' = SLUGIFY_ERROR_INVALID /\ pc' = "ret"
     ELSE rc' = rc /\ pc' = "loop"
  /\ i' = 0
  /\ j' = 0
  /\ UNCHANGED <<input, tail, opts, estimated, out_size, buf, frees,
                 output, wmax, result, oob>>

\* the loop test: input[i] != '\0' && j < out_size - 1
LoopGuard == ByteAt(input, tail, i) # 0 /\ j < out_size - 1

\* one iteration of the writing loop
ExStep ==
  /\ pc = "loop"
  /\ LoopGuard
  /\ LET r == LoopBody(input, i, St, out_size, opts)
     IN /\ output' = r.st.out
        /\ j' = r.st.j
        /\ wmax' = r.st.wmax
        /\ i' = IF r.kind = "next" THEN i + utf8_decode(input, <<>>, i).consumed ELSE i
        /\ pc' = CASE r.kind = "next" -> "loop"
                   [] r.kind = "break" -> "post"
                   [] r.kind = "buffer" -> "ret"
        /\ rc' = IF r.kind = "buffer" THEN SLUGIFY_ERROR_BUFFER ELSE rc
  /\ UNCHANGED <<input, tail, opts, estimated, out_size, buf, frees, result, oob>>

\* the loop test fails
ExLoopExit ==
  /\ pc = "loop"
  /\ ~LoopGuard
  /\ pc' = "post"
  /\ UNCHANGED <<input, tail, opts, i, estimated, out_size, buf, frees,
                 output, j, wmax, rc, result, oob>>

\* TrimmedJ leaving a trailing separator in place
TrimmedJ_keep(out, jj, separator) == jj

\* what follows the loop: drop a trailing separator
TrimmedJ(out, jj, separator) ==
  IF jj > 0 /\ out[jj] = separator THEN jj - 1 ELSE jj

\* ... then fail on an empty slug or write the terminator
ExPost ==
  /\ pc = "post"
  /\ LET jt == TrimmedJ(output, j, opts.separator)
     IN /\ j' = jt
        /\ IF jt = 0
             THEN /\ rc' = SLUGIFY_ERROR_EMPTY
                  /\ UNCHANGED <<output, wmax>>
             ELSE /\ rc' = SLUGIFY_SUCCESS
                  /\ output' = Store(output, jt, 0)
                  /\ wmax' = Max(wmax, jt)
  /\ pc' = "ret"
  /\ UNCHANGED <<input, tail, opts, i, estimated, out_size, buf, frees, result, oob>>

\* the string held in the buffer: the bytes before the first NUL
RECURSIVE CString(_, _)
CString(out, k) ==
  IF k >= Len(out) \/ out[k + 1] = 0 THEN <<>>
  ELSE <<out[k + 1]>> \o CString(out, k + 1)

\* ------------------------------------------------------------------------
\* slugify: after slugify_ex
\* ------------------------------------------------------------------------
\* SlugifyReturn returning NULL without free(buf)
SlugifyReturn_leak ==
  /\ pc = "ret"
  /\ IF rc # SLUGIFY_SUCCESS
       THEN /\ result' = NULL
            /\ UNCHANGED <<buf, frees>>
       ELSE /\ result' = CString(output, 0)
            /\ UNCHANGED <<buf, frees>>
  /\ pc' = "done"
  /\ UNCHANGED <<input, tail, opts, i, estimated, out_size,
                 output, j, wmax, rc, oob>>

SlugifyReturn ==
  /\ pc = "ret"
  /\ IF rc # SLUGIFY_SUCCESS
       THEN /\ buf' = "freed"
            /\ frees' = frees + 1
            /\ result' = NULL
       ELSE /\ result' = CString(output, 0)
            /\ UNCHANGED <<buf, frees>>
  /\ pc' = "done"
  /\ UNCHANGED <<input, tail, opts, i, estimated, out_size,
                 output, j, wmax, rc, oob>>

Next ==
  \/ LengthNull
  \/ ReadPastEnd
  \/ ReadPastEndFault
  \/ LengthStep
  \/ LengthReturn
  \/ MallocOk
  \/ MallocFail
  \/ ExValidate
  \/ ExStep
  \/ ExLoopExit
  \/ ExPost
  \/ SlugifyReturn

Spec == Init /\ [][Next]_vars

NextEx ==
  \/ ExValidate
  \/ ExStep
  \/ ExLoopExit
  \/ ExPost

SpecEx == InitEx /\ [][NextEx]_vars

\* ------------------------------------------------------------------------
\* Byte patterns of malformed UTF-8, stated on the bytes of a string
\* (s[k] is the byte at C offset k - 1)
\* ------------------------------------------------------------------------
Byte(s, k) == IF k <= Len(s) THEN s[k] ELSE 0

Cont(b) == b >= \H80 /\ b <= \HBF

\* an n-byte lead followed by n-1 continuation bytes starts at k
Formed2(s, k) == Byte(s, k) >= \HC0 /\ Byte(s, k) <= \HDF /\ Cont(Byte(s, k + 1))

Formed3(s, k) ==
  /\ Byte(s, k) >= \HE0 /\ Byte(s, k) <= \HEF
  /\ Cont(Byte(s, k + 1)) /\ Cont(Byte(s, k + 2))

Formed4(s, k) ==
  /\ Byte(s, k) >= \HF0 /\ Byte(s, k) <= \HF7
  /\ Cont(Byte(s, k + 1)) /\ Cont(Byte(s, k + 2)) /\ Cont(Byte(s, k + 3))

\* a 2-byte sequence below 0x80, a 3-byte one below 0x800, a 4-byte one below 0x10000
OverlongAt(s, k) ==
  \/ Formed2(s, k) /\ Byte(s, k) <= \HC1
  \/ Formed3(s, k) /\ Byte(s, k) = \HE0 /\ Byte(s, k + 1) <= \H9F
  \/ Formed4(s, k) /\ Byte(s, k) = \HF0 /\ Byte(s, k + 1) <= \H8F

HasOverlong(s) == \E k \in 1..Len(s) : OverlongAt(s, k)

\* an overlong 2-, 3- or 4-byte encoding of an ASCII code point starts at k
OverlongAsciiAt(s, k) ==
  \E c \in 0..127, n \in 2..4 :
    k + n - 1 <= Len(s) /\ SubSeq(s, k, k + n - 1) = Encode(c, n)

\* slugify_ex has returned
Returned == pc \in {"ret", "done"} /\ rc # RC_NONE

\* the call failed as invalid input: no byte of the buffer written, no slug
RejectedInvalid ==
  /\ Returned => rc = SLUGIFY_ERROR_INVALID /\ wmax = -1 /\ output = <<>>
  /\ pc = "done" => result = NULL

\* C1: an input containing an overlong 2-, 3- or 4-byte encoding (of an
\* ASCII code point, or of any code point below the minimum of its length)
\* is rejected as invalid input under every option setting; a single ASCII
\* byte is not rejected as invalid.
C1_OverlongRejected ==
  /\ (input # NULL /\ HasOverlong(input)) => RejectedInvalid
  /\ (input # NULL /\ Len(input) = 1 /\ input[1] < \H80 /\ Returned)
       => rc # SLUGIFY_ERROR_INVALID

\* an input holding an overlong ASCII encoding after other text was rejected
C1_Witness ==
  /\ pc = "done"
  /\ input # NULL
  /\ Len(input) > 4
  /\ \E k \in 2..Len(input) : OverlongAsciiAt(input, k) /\ Byte(input, k) = \HF0
  /\ opts.preserve_case /\ opts.separator = 95 /\ opts.max_length = 1
  /\ rc = SLUGIFY_ERROR_INVALID
  /\ result = NULL

\* ------------------------------------------------------------------------
\* Well-formed UTF-8 as section 4.1 of the specification defines it
\* ------------------------------------------------------------------------
\* a 3-byte sequence for U+D800..U+DFFF
SurrogateAt(s, k) == Formed3(s, k) /\ Byte(s, k) = \HED /\ Byte(s, k + 1) >= \HA0

\* U+FDD0..U+FDEF, or a code point whose low 16 bits are FFFE or FFFF
NoncharAt(s, k) ==
  \/ /\ Formed3(s, k) /\ Byte(s, k) = \HEF
     /\ \/ Byte(s, k + 1) = \HB7 /\ Byte(s, k + 2) >= \H90 /\ Byte(s, k + 2) <= \HAF
        \/ Byte(s, k + 1) = \HBF /\ Byte(s, k + 2) >= \HBE
  \/ /\ Formed4(s, k)
     /\ Byte(s, k + 1) % 16 = 15 /\ Byte(s, k + 2) = \HBF /\ Byte(s, k + 3) >= \HBE

\* a 4-byte sequence for a value above U+10FFFF
BeyondAt(s, k) ==
  Formed4(s, k) /\ (Byte(s, k) > \HF4 \/ (Byte(s, k) = \HF4 /\ Byte(s, k + 1) >= \H90))

\* the number of bytes the byte b declares as a lead byte, 0 if it is none
Declared(b) ==
  IF b < \H80 THEN 1
  ELSE IF b >= \HC0 /\ b <= \HDF THEN 2
  ELSE IF b >= \HE0 /\ b <= \HEF THEN 3
  ELSE IF b >= \HF0 /\ b <= \HF7 THEN 4
  ELSE 0

\* the bytes from k on are a sequence of well-formed code points
RECURSIVE WellFormedFrom(_, _)
WellFormedFrom(s, k) ==
  IF k > Len(s) THEN TRUE
  ELSE
    LET n == Declared(s[k])
    IN /\ n # 0
       /\ n = 2 => Formed2(s, k)
       /\ n = 3 => Formed3(s, k)
       /\ n = 4 => Formed4(s, k)
       /\ ~OverlongAt(s, k) /\ ~SurrogateAt(s, k) /\ ~NoncharAt(s, k) /\ ~BeyondAt(s, k)
       /\ WellFormedFrom(s, k + n)

WellFormed(s) == WellFormedFrom(s, 1)

\* a byte that is no lead byte stands where a code point starts
RECURSIVE InvalidLeadFrom(_, _)
InvalidLeadFrom(s, k) ==
  IF k > Len(s) THEN FALSE
  ELSE IF Declared(s[k]) = 0 THEN TRUE
  ELSE InvalidLeadFrom(s, k + Declared(s[k]))

HasInvalidLead(s) == InvalidLeadFrom(s, 1)

\* the lead byte at k is not followed by the continuation bytes it declares
BrokenAt(s, k) ==
  /\ Declared(s[k]) >= 2
  /\ \E m \in 1..(Declared(s[k]) - 1) : ~Cont(Byte(s, k + m))

\* ... because the string ends first
TruncatedAt(s, k) == Declared(s[k]) >= 2 /\ k + Declared(s[k]) - 1 > Len(s)

\* C2: all-or-nothing: an input that is not well-formed UTF-8, wherever the
\* malformed sequence stands, fails as invalid input before any byte of the
\* output is written, and slugify returns NULL.
C2_AllOrNothing ==
  (input # NULL /\ ~WellFormed(input)) => RejectedInvalid

\* C3: an input with a byte 0x80-0xBF or 0xF8-0xFF in lead position is
\* rejected as invalid input and contributes nothing to any output.
C3_InvalidLeadRejected ==
  (input # NULL /\ HasInvalidLead(input)) => RejectedInvalid

\* C4: an input holding a sequence that decodes to a surrogate, to a
\* non-character or to a value above 0x10FFFF is rejected as invalid input.
C4_RangesRejected ==
  (/\ input # NULL
   /\ \E k \in 1..Len(input) :
        SurrogateAt(input, k) \/ NoncharAt(input, k) \/ BeyondAt(input, k))
    => RejectedInvalid

\* a structurally correct non-character of a supplementary plane, inside
\* other text, was rejected
C4_Witness ==
  /\ pc = "done"
  /\ input # NULL
  /\ \E k \in 2..Len(input) : NoncharAt(input, k) /\ Formed4(input, k)
  /\ Byte(input, 1) = \H41
  /\ rc = SLUGIFY_ERROR_INVALID
  /\ wmax = -1
  /\ result = NULL

\* C5: a lead byte of an n-byte sequence that is not followed by n-1
\* continuation bytes, in the input or because the input ends first, makes
\* the input rejected as invalid input.
C5_ContinuationsRequired ==
  (input # NULL /\ \E k \in 1..Len(input) : BrokenAt(input, k)) => RejectedInvalid

\* a 3-byte sequence whose last byte is missing at the end of the input,
\* after other text, was rejected
C5_Witness ==
  /\ pc = "done"
  /\ input # NULL
  /\ rc = SLUGIFY_ERROR_INVALID
  /\ result = NULL
  /\ Len(input) >= 3
  /\ Byte(input, 1) = \H41
  /\ TruncatedAt(input, Len(input) - 1)
  /\ Declared(input[Len(input) - 1]) = 3

\* ------------------------------------------------------------------------
\* The writing pass and the caller's capacity
\* ------------------------------------------------------------------------
\* C6: for every input, option setting and capacity out_size >= 1 the
\* writing pass writes no index >= out_size, and on success the index of
\* the terminating NUL, j, is below out_size.
C6_WritesInBounds ==
  out_size >= 1 =>
    /\ wmax < out_size
    /\ (pc = "ret" /\ rc = SLUGIFY_SUCCESS) => (j < out_size /\ output[j + 1] = 0)

\* a success whose terminator fills the last byte of the buffer, after a
\* transliteration that fitted exactly
C6_Witness ==
  /\ pc = "ret"
  /\ rc = SLUGIFY_SUCCESS
  /\ out_size = 4
  /\ j = out_size - 1
  /\ wmax = out_size - 1
  /\ input = <<\HC2, \HA9>>

\* ------------------------------------------------------------------------
\* slugify as a function, for strings whose sizing pass stays inside the
\* string (every string that ends in a complete sequence)
\* ------------------------------------------------------------------------
\* slugify_length's loop from offset i on
RECURSIVE LengthFrom(_, _, _, _)
LengthFrom(str, k, est, o) ==
  IF ByteAt(str, <<>>, k) = 0 THEN est + 1
  ELSE
    LET d == utf8_decode(str, <<>>, k)
    IN LengthFrom(str, k + d.consumed,
                  est + EstimateOf(d.codepoint, d.consumed, o.preserve_case), o)

\* what follows slugify_ex's loop, on the buffer state st
PostOf(st, o) ==
  LET jt == TrimmedJ(st.out, st.j, o.separator)
  IN IF jt = 0 THEN [rc |-> SLUGIFY_ERROR_EMPTY, slug |-> NULL]
     ELSE [rc |-> SLUGIFY_SUCCESS, slug |-> SubSeq(st.out, 1, jt)]

\* slugify_ex's loop from offset i on
RECURSIVE WriteFrom(_, _, _, _, _)
WriteFrom(str, k, st, size, o) ==
  IF ByteAt(str, <<>>, k) # 0 /\ st.j < size - 1 THEN
    LET r == LoopBody(str, k, st, size, o)
    IN CASE r.kind = "next" ->
              WriteFrom(str, k + utf8_decode(str, <<>>, k).consumed, r.st, size, o)
         [] r.kind = "break" -> PostOf(r.st, o)
         [] r.kind = "buffer" -> [rc |-> SLUGIFY_ERROR_BUFFER, slug |-> NULL]
  ELSE PostOf(st, o)

\* slugify(str, &o): the slug, or NULL
Convert(str, o) ==
  IF ~is_utf8_valid(str, strlen(str)) THEN NULL
  ELSE WriteFrom(str, 0, [out |-> <<>>, j |-> 0, wmax |-> -1],
                 LengthFrom(str, 0, 0, o), o).slug

\* slugify returned a slug for a well-formed input
Succeeded == pc = "done" /\ result # NULL /\ WellFormed(input)

\* C7: with max_length > 0 a successful result has at most max_length bytes,
\* for every valid input, every separator and either value of preserve_case.
C7_MaxLengthBound ==
  (Succeeded /\ opts.max_length > 0) => Len(result) <= opts.max_length

\* C8: with preserve_case = false every byte of a successful result is a
\* lowercase ASCII letter, an ASCII digit or the separator.
C8_AsciiSafe ==
  (Succeeded /\ ~opts.preserve_case) =>
    \A k \in 1..Len(result) :
      islower(result[k]) \/ isdigit(result[k]) \/ result[k] = opts.separator

\* C9: idempotence with preserve_case = false: converting a successful
\* result again with the same options succeeds and returns it unchanged.
C9_Idempotent ==
  (Succeeded /\ ~opts.preserve_case) => Convert(result, opts) = result

\* C10: separators collapse: a successful result never holds two adjacent
\* separator bytes.
C10_NoAdjacentSeparators ==
  Succeeded =>
    \A k \in 1..(Len(result) - 1) :
      ~(result[k] = opts.separator /\ result[k + 1] = opts.separator)

\* ------------------------------------------------------------------------
\* Separators at the ends of the result
\* ------------------------------------------------------------------------
\* C11: a successful result never ends with the separator byte.
C11_NoTrailingSeparator ==
  Succeeded => result[Len(result)] # opts.separator

\* C12: a successful result never begins with the separator byte.
C12_NoLeadingSeparator ==
  Succeeded => result[1] # opts.separator

\* ------------------------------------------------------------------------
\* What one code point contributes
\* ------------------------------------------------------------------------
\* the table read as a mapping: the replacement of key cp, NULL if cp is no key
IsKey(cp) == \E k \in 1..(TableHi + 1) : transliteration_table[k][1] = cp

ReplacementOf(cp) ==
  IF IsKey(cp)
    THEN transliteration_table[CHOOSE k \in 1..(TableHi + 1) :
                                 transliteration_table[k][1] = cp][2]
    ELSE NULL

Lowered(s) == [k \in 1..Len(s) |-> tolower(s[k])]

\* the loop consumes the code point at offset i in this step
Consumes == pc = "loop" /\ pc' = "loop" /\ i' > i

\* the step appends exactly the bytes e to the output
Appends(e) ==
  /\ j' = j + Len(e)
  /\ SubSeq(output', 1, j) = SubSeq(output, 1, j)
  /\ SubSeq(output', j + 1, j') = e

\* the code point of the well-formed sequence that starts at s[k]
CodePointAt(s, k) ==
  CASE Declared(s[k]) = 1 -> s[k]
    [] Declared(s[k]) = 2 -> (s[k] - 192) * 64 + (s[k + 1] - 128)
    [] Declared(s[k]) = 3 ->
         (s[k] - 224) * 4096 + (s[k + 1] - 128) * 64 + (s[k + 2] - 128)
    [] Declared(s[k]) = 4 ->
         (s[k] - 240) * 262144 + (s[k + 1] - 128) * 4096
           + (s[k + 2] - 128) * 64 + (s[k + 3] - 128)

\* what a non-ASCII code point is to contribute: its own bytes with
\* preserve_case, else its replacement in lowercase, nothing if it has none
ContributionAt(s, k, o) ==
  IF o.preserve_case THEN SubSeq(s, k, k + Declared(s[k]) - 1)
  ELSE IF IsKey(CodePointAt(s, k)) THEN Lowered(ReplacementOf(CodePointAt(s, k)))
  ELSE <<>>

RECURSIVE ContributionsFrom(_, _, _)
ContributionsFrom(s, k, o) ==
  IF k > Len(s) THEN <<>>
  ELSE ContributionAt(s, k, o) \o ContributionsFrom(s, k + Declared(s[k]), o)

\* C13: with max_length = 0 the non-ASCII code points of a valid input
\* contribute, in order, their own bytes when preserve_case is set, and
\* otherwise their table replacement in lowercase if they are a key and
\* nothing if they are not (stated for inputs without ASCII characters,
\* on the output as the writing loop leaves it).
C13_NonAsciiContribution ==
  (/\ pc = "post"
   /\ WellFormed(input)
   /\ opts.max_length = 0
   /\ \A k \in 1..Len(input) : input[k] >= \H80)
    => SubSeq(output, 1, j) = ContributionsFrom(input, 1, opts)

\* ------------------------------------------------------------------------
\* Case folding
\* ------------------------------------------------------------------------
\* no uppercase ASCII letter in a result made with preserve_case = false
FoldedResult ==
  (pc = "done" /\ result # NULL /\ ~opts.preserve_case)
    => \A k \in 1..Len(result) : ~isupper(result[k])

\* with preserve_case an ASCII alphanumeric character that the loop
\* consumes is appended as it is
KeepsAlnum ==
  (Consumes /\ opts.preserve_case /\ isalnum(ByteAt(input, <<>>, i)))
    => Appends(<<ByteAt(input, <<>>, i)>>)

\* C14: case folding: with preserve_case = false a successful result holds
\* no uppercase ASCII letter, whether copied or transliterated; with
\* preserve_case = true every ASCII alphanumeric character is emitted
\* unchanged.
C14_CaseFolding == []FoldedResult /\ [][KeepsAlnum]_vars

\* an uppercase letter and an uppercase replacement came out in lowercase
C14_Witness ==
  /\ pc = "done"
  /\ ~opts.preserve_case
  /\ input = <<\H41, \HC3, \H89>>
  /\ result = <<97, 101>>

\* ------------------------------------------------------------------------
\* The empty result
\* ------------------------------------------------------------------------
\* s without its last byte when that byte is the separator
Stripped(s, separator) ==
  IF s # <<>> /\ s[Len(s)] = separator THEN SubSeq(s, 1, Len(s) - 1) ELSE s

\* the step that follows the writing loop fails with the empty-result code
\* exactly when nothing is left of the loop's output
EmptyExactly ==
  (pc = "post" /\ pc' = "ret")
    => (rc' = SLUGIFY_ERROR_EMPTY
          <=> Stripped(SubSeq(output, 1, j), opts.separator) = <<>>)

\* the empty-result code makes slugify return NULL, the empty input gets
\* that code, and a returned slug has at least one byte
EmptyIsNull ==
  pc = "done" =>
    /\ rc = SLUGIFY_ERROR_EMPTY => result = NULL
    /\ (input = <<>> /\ buf # "none") => rc = SLUGIFY_ERROR_EMPTY
    /\ result # NULL => Len(result) > 0

\* C15: for a valid input the conversion fails with the empty-result code
\* (slugify returns NULL) exactly when the output, after the trailing
\* separator is removed, has zero bytes; a successful result is never the
\* empty string.
C15_EmptyResult == []EmptyIsNull /\ [][EmptyExactly]_vars

\* the loop wrote one separator, which was removed, and nothing was left
C15_Witness ==
  /\ pc = "done"
  /\ input = <<\HE2, \H80, \H93>>
  /\ output = <<opts.separator>>
  /\ rc = SLUGIFY_ERROR_EMPTY
  /\ result = NULL

\* ------------------------------------------------------------------------
\* slugify's buffer
\* ------------------------------------------------------------------------
\* slugify returned NULL: no buffer is left allocated, and one that was
\* allocated has been released once
FailureReleases ==
  (pc = "done" /\ result = NULL) =>
    /\ buf \in {"none", "freed"}
    /\ buf = "none" => frees = 0
    /\ buf = "freed" => frees = 1

\* slugify returned a buffer: it is allocated, was never released, and
\* holds the slug followed by a NUL inside its out_size bytes
SuccessKeeps ==
  (pc = "done" /\ result # NULL) =>
    /\ buf = "live"
    /\ frees = 0
    /\ rc = SLUGIFY_SUCCESS
    /\ Len(result) < out_size
    /\ output[Len(result) + 1] = 0

\* C16: slugify returns NULL on every failure path (NULL input, allocation
\* failure, invalid input, buffer exceeded, empty result) with any buffer it
\* allocated released exactly once; on success the returned buffer is
\* NUL-terminated and not released; no path returns a freed buffer or
\* leaks an allocated one.
C16_BufferReleased ==
  /\ FailureReleases
  /\ SuccessKeeps
  /\ frees <= 1
  /\ (pc = "done" /\ (input = NULL \/ rc \in {SLUGIFY_ERROR_BUFFER,
        SLUGIFY_ERROR_INVALID, SLUGIFY_ERROR_EMPTY})) => result = NULL

\* slugify_ex failed on a buffer that slugify allocated and then released
C16_Witness ==
  /\ pc = "done"
  /\ rc = SLUGIFY_ERROR_INVALID
  /\ result = NULL
  /\ buf = "freed"
  /\ frees = 1

\* ------------------------------------------------------------------------
\* Capacity
\* ------------------------------------------------------------------------
\* the longest replacement string of the table
LongestReplacement ==
  LET lens == {Len(transliteration_table[k][2]) : k \in 1..(TableHi + 1)}
  IN CHOOSE m \in lens : \A n \in lens : n <= m

\* a capacity no emission of the string can exhaust: every byte of it
\* contributes at most the longest replacement
Roomy(str) == (Len(str) + 1) * LongestReplacement + 1

\* the result of the writing pass when capacity is no constraint
Unbounded(str, o) ==
  WriteFrom(str, 0, [out |-> <<>>, j |-> 0, wmax |-> -1], Roomy(str), o)

\* C17: in slugify_ex with a caller-supplied out_size, an emission that
\* does not fit in the remaining space (with room for the terminator) makes
\* the call return SLUGIFY_ERROR_BUFFER with no further write; the call
\* never returns success with a result shortened by lack of capacity.
C17_NoSilentTruncation ==
  (pc = "ret" /\ rc = SLUGIFY_SUCCESS)
    => /\ Unbounded(input, opts).rc = SLUGIFY_SUCCESS
       /\ SubSeq(output, 1, j) = Unbounded(input, opts).slug

\* ------------------------------------------------------------------------
\* The order of the table
\* ------------------------------------------------------------------------
\* the code point the writing loop is about to look up
AtCodePoint == pc = "loop" /\ LoopGuard /\ ByteAt(input, <<>>, i) >= \H80

\* C18: the keys of the transliteration table are strictly ascending, so
\* the binary search returns r for every entry (k, r) of the table and
\* not-found for every code point that is no key.
C18_SortedLookup ==
  AtCodePoint =>
    LET cp == utf8_decode(input, <<>>, i).codepoint
    IN transliterate_char(cp) = ReplacementOf(cp)

\* ------------------------------------------------------------------------
\* The sizing pass against the writing pass
\* ------------------------------------------------------------------------
\* the writing pass has ended for a valid input in the buffer slugify sized
Written == pc \in {"post", "ret", "done"} /\ WellFormed(input) /\ buf # "none"

\* the bytes emitted fit in the computed capacity with the terminator, and
\* they are the bytes an unlimited capacity gives
EnoughRoom ==
  Written =>
    /\ j + 1 <= out_size
    /\ wmax < out_size
    /\ pc # "post" =>
         /\ rc = Unbounded(input, opts).rc
         /\ rc = SLUGIFY_SUCCESS => SubSeq(output, 1, j) = Unbounded(input, opts).slug

\* C19: for every valid input and option setting the capacity computed by
\* slugify_length is at least the number of bytes the writing pass emits
\* plus one, so slugify never fails with the buffer error and never
\* truncates a result for lack of capacity.
C19_EstimateSuffices ==
  /\ rc # SLUGIFY_ERROR_BUFFER
  /\ EnoughRoom
  /\ (pc = "done" /\ result # NULL) => result = Unbounded(input, opts).slug

\* a slug with a transliterated character fills the computed capacity
\* to the last byte
C19_Witness ==
  /\ pc = "done"
  /\ result # NULL
  /\ WellFormed(input)
  /\ ~opts.preserve_case
  /\ \E k \in 1..Len(input) : input[k] >= \H80
  /\ Len(result) >= 2
  /\ Len(result) + 1 = out_size

\* ------------------------------------------------------------------------
\* Reads of the input
\* ------------------------------------------------------------------------
\* C20: for every NUL-terminated input passed to slugify, malformed or
\* truncated UTF-8 included, no pass reads an input byte beyond the NUL
\* terminator; the sizing pass keeps its read offset i <= the length of the
\* input at every step.
C20_ReadsInBounds ==
  /\ ~oob
  /\ (pc = "length" /\ input # NULL) => i <= Len(input)
====
